---- MODULE Spec2Model ----
(***************************************************************************)
(* Model of the Modbus simulator: the auto-growing register block          *)
(* (ModbusContext.DynamicDataBlock), the table facade                      *)
(* (ModbusContext.SimpleModbusContext), the typed register write/read of   *)
(* main.MainWindow and the listener lifecycle of SalveHandler.SlaveRuntime. *)
(*                                                                         *)
(* Python lists are sequences; a list index i is position i+1.             *)
(***************************************************************************)
EXTENDS Integers, Sequences, FiniteSets, TLC

VARIABLES
    blk,        \* SpecBlock: one DynamicDataBlock [address, values]
    written,    \* SpecBlock: history, address -> value last written (Unwritten if none)
    res,        \* SpecBlock/SpecCtx: the last call on the store and its outcome
    ctx,        \* SpecCtx/SpecReg: SimpleModbusContext.store, table -> DynamicDataBlock
    nops,       \* number of calls issued so far by the calling thread
    rw,         \* SpecReg: the last typed register write and the read after it
    rts,        \* the SlaveRuntime objects created so far, by id 1..Len(rts)
    thr,        \* the worker threads started so far, by id 1..Len(thr)
    port,       \* the thread whose listener holds the slave's transport, or NoThread
    ctl,        \* the control (UI) thread: the call it is in, and what the call did
    status,     \* the status_changed emissions so far, in order: <<runtime, text>>
    runtimes,   \* MainWindow.runtimes.get(name) for the slave: a runtime id, or 0;
                \* SpecSlaves: the dict itself, its entries [name, rt] in order
    registers,  \* slave['registers']: the register definitions of the slave, in order
    dlg,        \* the last register add/edit/remove of the operator and its outcome
    jobs,       \* SpecConc: per thread, its setValues calls and its place in them
    slaves,     \* SpecSlaves: MainWindow.slaves, the slave definitions in list order
    view        \* SpecSearch: the search box text and the rows MainWindow.table shows

vars == <<blk, written, res, ctx, nops, rw, rts, thr, port, ctl, status, runtimes,
          registers, dlg, jobs, slaves, view>>

\* The variables of the typed register access.
regVars == <<rw>>
\* The variables of the listener lifecycle.
lifeVars == <<rts, thr, port, ctl, status, runtimes>>
\* The variables of the register store.
storeVars == <<blk, written, res, ctx, rw>>
\* The variables of the register list editing.
editVars == <<registers, dlg, slaves, view>>
\* The variables of the concurrent block writes.
concVars == <<jobs>>

----------------------------------------------------------------------------
\* Bounds of the model.

\* Highest address a request names (the lowest is -1, one below base 0).
MaxAddr == 2
\* Longest value list of a block write and largest count of a block read.
MaxCount == 2
\* Highest base address a standalone DynamicDataBlock is constructed with.
MaxBase == 1
\* Cells a block is constructed with (SimpleModbusContext's initial_block_size
\* parameter, 1000 by default; its value only sets where growth starts).
BlockSize == 1
\* Calls on a SimpleModbusContext in one run.
MaxCtxOps == 2
\* Longest value list / largest count of a listener request on the context.
MaxReqCount == 1
\* Typed register accesses (write_register_value, read_register_value) in one run.
MaxRegOps == 2
\* Calls (start, stop) the control thread issues in one run.
MaxLifeOps == 4

\* Cell values that requests write.
Values == {0, 7}

\* Marks an address no write has reached (cell values are never negative here).
Unwritten == 0 - 1

----------------------------------------------------------------------------
\* Python list helpers.

Zeros(n) == [i \in 1..n |-> 0]

\* list[lo:hi] for 0 <= lo, with hi clipped to the length as Python does.
Slice(list, lo, hi) ==
    LET h == IF hi > Len(list) THEN Len(list) ELSE hi
    IN  IF lo >= h THEN <<>> ELSE SubSeq(list, lo + 1, h)

\* All lists of 1..n cell values.
ValueLists(n) == UNION {[1..k -> Values] : k \in 1..n}

----------------------------------------------------------------------------
\* ModbusContext.DynamicDataBlock

\* DynamicDataBlock.__init__(address, values)
DynamicDataBlock(address, values) == [address |-> address, values |-> values]

\* DynamicDataBlock.validate
DDB_validate(b, address, count) ==
    IF address < b.address THEN FALSE ELSE TRUE

\* getValues with the zero padding left out: a plain slice.
DDB_getValues_NoPad(b, address, count) ==
    LET start == address - b.address
    IN  IF start < 0
        THEN [err |-> "IndexError", ret |-> <<>>]
        ELSE [err |-> "none", ret |-> Slice(b.values, start, start + count)]

\* DynamicDataBlock.getValues: [err, ret]
DDB_getValues(b, address, count) ==
    LET start == address - b.address
        end   == start + count
    IN  IF start < 0
        THEN [err |-> "IndexError", ret |-> <<>>]
        ELSE IF end <= Len(b.values)
        THEN [err |-> "none", ret |-> Slice(b.values, start, end)]
        ELSE LET vals == IF start < Len(b.values)
                         THEN Slice(b.values, start, Len(b.values))
                         ELSE <<>>
             IN  [err |-> "none", ret |-> vals \o Zeros(count - Len(vals))]

\* setValues that appends the values after the old extent instead of zero-filling
\* the gap up to the target address.
DDB_setValues_NoGap(b, address, values) ==
    LET start == address - b.address
    IN  IF start < 0
        THEN [err |-> "IndexError", blk |-> b]
        ELSE IF start >= Len(b.values)
        THEN [err |-> "none", blk |-> [b EXCEPT !.values = @ \o values]]
        ELSE LET grown == b.values \o Zeros(start + Len(values) - Len(b.values))
             IN  [err |-> "none",
                  blk |-> [b EXCEPT !.values =
                      [i \in 1..Len(grown) |->
                          IF i > start /\ i <= start + Len(values)
                          THEN values[i - start] ELSE grown[i]]]]

\* DynamicDataBlock.setValues: [err, blk]
DDB_setValues(b, address, values) ==
    LET start == address - b.address
        end   == start + Len(values)
    IN  IF start < 0
        THEN [err |-> "IndexError", blk |-> b]
        ELSE LET grown == IF end > Len(b.values)
                          THEN b.values \o Zeros(end - Len(b.values))
                          ELSE b.values
             IN  [err |-> "none",
                  blk |-> [b EXCEPT !.values =
                      [i \in 1..Len(grown) |->
                          IF i > start /\ i <= end
                          THEN values[i - start] ELSE grown[i]]]]

----------------------------------------------------------------------------
\* Calls on one standalone DynamicDataBlock (SpecBlock).

\* Addresses a request may name: one below base 0 up to MaxAddr.
Addrs == -1..MaxAddr
\* Every address a read or write can touch.
Cells == 0..(MaxAddr + MaxCount)

NoCall ==
    [op |-> "none", table |-> "", address |-> 0, count |-> 0, values |-> <<>>,
     err |-> "none", ret |-> <<>>, pre |-> <<>>]

\* SimpleModbusContext.__init__: four blocks at base 0 of block_size zeros.
Tables == {"co", "di", "hr", "ir"}
SimpleModbusContext == [t \in Tables |-> DynamicDataBlock(0, Zeros(BlockSize))]

\* No typed register access yet.
NoAccess == [phase |-> "none"]

\* No thread: self._thread = None, and a free transport.
NoThread == 0

\* The control thread between two calls, before its first call.
Idle ==
    [op |-> "none", pc |-> "idle", rt |-> 0, mw |-> FALSE,
     preStopped |-> FALSE, preActive |-> FALSE, spawned |-> FALSE,
     changed |-> FALSE, warned |-> FALSE, emitted |-> FALSE, aliveAtEnd |-> FALSE]

\* No register was added, edited or removed yet.
NoDialog == [op |-> "none"]

\* No concurrent block write.
NoJobs == <<>>

\* No search text, and no row in the table.
NoTable == [search |-> <<>>, rows |-> <<>>]

\* MainWindow.__init__: no slave is running, nothing was started, and the slave
\* has no registers.
NoLifecycle ==
    /\ rts = <<>>
    /\ thr = <<>>
    /\ port = NoThread
    /\ ctl = Idle
    /\ status = <<>>
    /\ runtimes = 0
    /\ registers = <<>>
    /\ dlg = NoDialog
    /\ slaves = <<>>
    /\ view = NoTable
    /\ jobs = NoJobs

InitBlock ==
    /\ blk \in {DynamicDataBlock(b, Zeros(n)) : b \in 0..MaxBase, n \in 0..BlockSize}
    /\ written = [a \in Cells |-> Unwritten]
    /\ res = NoCall
    /\ ctx = SimpleModbusContext
    /\ nops = 0
    /\ rw = NoAccess
    /\ NoLifecycle

\* blk.validate(address, count)
BlockValidate ==
    \E a \in Addrs, c \in 0..MaxCount :
        /\ res' = [NoCall EXCEPT !.op = "validate", !.address = a, !.count = c,
                                 !.ret = DDB_validate(blk, a, c), !.pre = blk.values]
        /\ UNCHANGED <<blk, written, ctx, nops, regVars, lifeVars, editVars, concVars>>

\* blk.getValues(address, count)
BlockGetValues ==
    \E a \in Addrs, c \in 0..MaxCount :
        LET r == DDB_getValues(blk, a, c)
        IN  /\ res' = [NoCall EXCEPT !.op = "getValues", !.address = a, !.count = c,
                                     !.err = r.err, !.ret = r.ret, !.pre = blk.values]
            /\ UNCHANGED <<blk, written, ctx, nops, regVars, lifeVars, editVars, concVars>>

\* blk.setValues(address, values)
BlockSetValues ==
    \E a \in Addrs, vs \in ValueLists(MaxCount) :
        LET r == DDB_setValues(blk, a, vs)
        IN  /\ blk' = r.blk
            /\ res' = [NoCall EXCEPT !.op = "setValues", !.address = a, !.values = vs,
                                     !.err = r.err, !.pre = blk.values]
            /\ written' = IF r.err = "none"
                          THEN [x \in Cells |->
                                   IF x >= a /\ x < a + Len(vs)
                                   THEN vs[x - a + 1] ELSE written[x]]
                          ELSE written
            /\ UNCHANGED <<ctx, nops, regVars, lifeVars, editVars, concVars>>

NextBlock == BlockValidate \/ BlockGetValues \/ BlockSetValues

SpecBlock == InitBlock /\ [][NextBlock]_vars

\* The value the history gives for an address: the last one written, else 0.
LastWritten(a) == IF written[a] = Unwritten THEN 0 ELSE written[a]

\* C1: a read at or above the base never fails and returns exactly count values,
\* the i-th being the value last written to address+i, or 0 if that address was
\* never written, also beyond the current extent.
C1_ReadLastWrittenOrZero ==
    (res.op = "getValues" /\ res.address >= blk.address) =>
        /\ res.err = "none"
        /\ Len(res.ret) = res.count
        /\ \A i \in 1..res.count : res.ret[i] = LastWritten(res.address + i - 1)

\* C1 witness: a read that starts inside the written extent and ends beyond it,
\* on a block with base 0 that holds a written nonzero value.
C1_Witness ==
    /\ res.op = "getValues" /\ blk.address = 0 /\ res.address >= 0
    /\ res.address < Len(blk.values)
    /\ res.address + res.count > Len(blk.values)
    /\ written[res.address] = 7

\* C2: a write at or above the base never fails; afterwards the target cells hold
\* the written values, the gap between the old extent and the target holds 0,
\* every other cell that existed is unchanged, and reading the range back returns
\* the written values.
C2_WriteFrame ==
    (res.op = "setValues" /\ res.address >= blk.address) =>
        LET start == res.address - blk.address
            n     == Len(res.values)
            old   == res.pre
        IN  /\ res.err = "none"
            /\ Len(blk.values) = IF start + n > Len(old) THEN start + n ELSE Len(old)
            /\ \A i \in 1..Len(blk.values) :
                  blk.values[i] = IF i > start /\ i <= start + n THEN res.values[i - start]
                                  ELSE IF i <= Len(old) THEN old[i]
                                  ELSE 0
            /\ DDB_getValues(blk, res.address, n) = [err |-> "none", ret |-> res.values]

\* C2 witness: a write that lands beyond the old extent and leaves a gap, on a
\* block that already held a nonzero cell.
C2_Witness ==
    /\ res.op = "setValues" /\ res.err = "none"
    /\ res.address - blk.address > Len(res.pre)
    /\ \E i \in 1..Len(res.pre) : res.pre[i] = 7

----------------------------------------------------------------------------
\* ModbusContext.SimpleModbusContext

\* The table tags callers pass: the four known ones and an unknown one.
Tags == Tables \cup {"xx"}

\* fx_map of set/get; 0 stands for fx_map.get(table) = None.
fx_map(table) ==
    CASE table = "co" -> 1
      [] table = "di" -> 2
      [] table = "hr" -> 3
      [] table = "ir" -> 4
      [] OTHER -> 0

\* The block ModbusSlaveContext(di=, co=, hr=, ir=) selects for a function code.
StoreBlock(fx) ==
    CASE fx = 1 -> "co"
      [] fx = 2 -> "di"
      [] fx = 3 -> "hr"
      [] fx = 4 -> "ir"

\* What a call returns when it raises.
NoRet == <<>>

\* self.store.validate(fx, address, count) with zero_mode=True
Store_validate(c, fx, address, count) ==
    DDB_validate(c[StoreBlock(fx)], address, count)

\* self.store.getValues(fx, address, count) with zero_mode=True: [err, ret]
Store_getValues(c, fx, address, count) ==
    DDB_getValues(c[StoreBlock(fx)], address, count)

\* self.store.setValues(fx, address, values) with zero_mode=True: [err, ctx]
Store_setValues(c, fx, address, values) ==
    LET r == DDB_setValues(c[StoreBlock(fx)], address, values)
    IN  [err |-> r.err, ctx |-> [c EXCEPT ![StoreBlock(fx)] = r.blk]]

\* set that ignores an unknown table and swallows the store's exception.
Ctx_set_Silent(c, table, address, value) ==
    LET fx == fx_map(table)
    IN  IF fx = 0
        THEN [err |-> "none", ctx |-> c]
        ELSE [err |-> "none", ctx |-> Store_setValues(c, fx, address, <<value>>).ctx]

\* SimpleModbusContext.set: [err, ctx]
Ctx_set(c, table, address, value) ==
    LET fx == fx_map(table)
    IN  IF fx = 0
        THEN [err |-> "KeyError", ctx |-> c]
        ELSE Store_setValues(c, fx, address, <<value>>)

\* get that answers a default instead of raising.
Ctx_get_Default(c, table, address) ==
    LET fx == fx_map(table)
    IN  IF fx = 0
        THEN [err |-> "none", ret |-> 0]
        ELSE LET r == Store_getValues(c, fx, address, 1)
             IN  IF r.err # "none" THEN [err |-> "none", ret |-> 0]
                 ELSE [err |-> "none", ret |-> r.ret[1]]

\* SimpleModbusContext.get: [err, ret]; ret is the cell, or NoRet when it raises.
Ctx_get(c, table, address) ==
    LET fx == fx_map(table)
    IN  IF fx = 0
        THEN [err |-> "KeyError", ret |-> NoRet]
        ELSE LET r == Store_getValues(c, fx, address, 1)
             IN  IF r.err # "none" THEN [err |-> r.err, ret |-> NoRet]
                 ELSE [err |-> "none", ret |-> r.ret[1]]

----------------------------------------------------------------------------
\* Calls on one SimpleModbusContext (SpecCtx): the facade's set/get from the UI
\* thread and the store's validate/getValues/setValues from the listener.

InitCtx ==
    /\ blk = DynamicDataBlock(0, <<>>)
    /\ written = [a \in Cells |-> Unwritten]
    /\ res = NoCall
    /\ ctx = SimpleModbusContext
    /\ nops = 0
    /\ rw = NoAccess
    /\ NoLifecycle

\* context.set(table, address, value)
CtxSet ==
    /\ nops < MaxCtxOps
    /\ \E t \in Tags, a \in Addrs, v \in Values :
        LET r == Ctx_set(ctx, t, a, v)
        IN  /\ ctx' = r.ctx
            /\ res' = [NoCall EXCEPT !.op = "set", !.table = t, !.address = a,
                                     !.values = <<v>>, !.err = r.err, !.pre = ctx]
    /\ nops' = nops + 1
    /\ UNCHANGED <<blk, written, regVars, lifeVars, editVars, concVars>>

\* context.get(table, address)
CtxGet ==
    /\ nops < MaxCtxOps
    /\ \E t \in Tags, a \in Addrs :
        LET r == Ctx_get(ctx, t, a)
        IN  res' = [NoCall EXCEPT !.op = "get", !.table = t, !.address = a,
                                  !.err = r.err, !.ret = r.ret, !.pre = ctx]
    /\ nops' = nops + 1
    /\ UNCHANGED <<blk, written, ctx, regVars, lifeVars, editVars, concVars>>

\* A listener request's validate on the served store.
StoreValidate ==
    /\ nops < MaxCtxOps
    /\ \E t \in Tables, a \in Addrs, n \in 1..MaxReqCount :
        res' = [NoCall EXCEPT !.op = "validate", !.table = t, !.address = a,
                              !.count = n,
                              !.ret = Store_validate(ctx, fx_map(t), a, n),
                              !.pre = ctx]
    /\ nops' = nops + 1
    /\ UNCHANGED <<blk, written, ctx, regVars, lifeVars, editVars, concVars>>

\* A listener read request on the served store.
StoreGetValues ==
    /\ nops < MaxCtxOps
    /\ \E t \in Tables, a \in Addrs, n \in 1..MaxReqCount :
        LET r == Store_getValues(ctx, fx_map(t), a, n)
        IN  res' = [NoCall EXCEPT !.op = "getValues", !.table = t, !.address = a,
                                  !.count = n, !.err = r.err,
                                  !.ret = IF r.err = "none" THEN r.ret ELSE NoRet,
                                  !.pre = ctx]
    /\ nops' = nops + 1
    /\ UNCHANGED <<blk, written, ctx, regVars, lifeVars, editVars, concVars>>

\* A listener write request on the served store.
StoreSetValues ==
    /\ nops < MaxCtxOps
    /\ \E t \in Tables, a \in Addrs, vs \in ValueLists(MaxReqCount) :
        LET r == Store_setValues(ctx, fx_map(t), a, vs)
        IN  /\ ctx' = r.ctx
            /\ res' = [NoCall EXCEPT !.op = "setValues", !.table = t, !.address = a,
                                     !.values = vs, !.err = r.err, !.pre = ctx]
    /\ nops' = nops + 1
    /\ UNCHANGED <<blk, written, regVars, lifeVars, editVars, concVars>>

NextCtx == CtxSet \/ CtxGet \/ StoreValidate \/ StoreGetValues \/ StoreSetValues

SpecCtx == InitCtx /\ [][NextCtx]_vars

\* Some cell of the context holds a written nonzero value.
CtxHasData(c) == \E t \in Tables : \E i \in 1..Len(c[t].values) : c[t].values[i] # 0

\* C3: getValues, setValues, get and set with an address below the block's base
\* raise (no clamping to the base, no default value) and leave every store as it
\* was; validate answers false exactly for the addresses below the base.
C3_BelowBaseFails ==
    /\ (/\ res.op \in {"getValues", "setValues", "get", "set"}
        /\ res.table \in Tables
        /\ res.address < res.pre[res.table].address)
           => /\ res.err = "IndexError"
              /\ res.ret = NoRet
              /\ ctx = res.pre
    /\ res.op = "validate"
           => (res.ret = FALSE <=> res.address < res.pre[res.table].address)

\* C3 witness: a facade set below the base on a context that holds data.
C3_Witness ==
    /\ res.op = "set" /\ res.table \in Tables /\ res.address < 0
    /\ CtxHasData(res.pre)

\* C4: get and set with a table tag outside co/di/hr/ir raise: no default value
\* is returned, and all four stores are left unchanged.
C4_UnknownTableFails ==
    (res.op \in {"get", "set"} /\ res.table \notin Tables) =>
        /\ res.err = "KeyError"
        /\ res.ret = NoRet
        /\ ctx = res.pre

\* C4 witness: a set with an unknown tag, a nonzero value and an address that a
\* known table would accept, on a context that holds data.
C4_Witness ==
    /\ res.op = "set" /\ res.table \notin Tables
    /\ res.address >= 0 /\ res.values = <<7>>
    /\ CtxHasData(res.pre)

----------------------------------------------------------------------------
\* Converstion.TypeConversions, the word codec main.py imports. Its file is not
\* part of the sources; it is modelled from the specification's WordCodec: a
\* value's fixed-width two's-complement representation split into 16-bit words,
\* most significant word first for big word order, and two characters packed per
\* word for strings.  The flag the callers pass is inverse = (endian = "big").
\* float32 and double64 are left out: nothing here represents IEEE-754 values.

WordBase == 65536
ByteBase == 256

RECURSIVE Reverse(_)
Reverse(list) ==
    IF list = <<>> THEN <<>> ELSE Reverse(Tail(list)) \o <<Head(list)>>

\* The n low 16-bit words of value, least significant first.
RECURSIVE LsbWords(_, _)
LsbWords(value, n) ==
    IF n = 0 THEN <<>>
    ELSE <<value % WordBase>> \o LsbWords(value \div WordBase, n - 1)

\* value shifted right by n words (floor division).
RECURSIVE ShiftWords(_, _)
ShiftWords(value, n) ==
    IF n = 0 THEN value ELSE ShiftWords(value \div WordBase, n - 1)

\* from_int32 / from_uint32 / from_long64 / from_ulong64: [err, words].
from_int(value, n, signed, inverse) ==
    LET top == ShiftWords(value, n - 1)
        ok  == IF signed THEN top >= -(WordBase \div 2) /\ top < WordBase \div 2
               ELSE top >= 0 /\ top < WordBase
        w   == LsbWords(value, n)
    IN  IF ~ok THEN [err |-> "struct.error", words |-> <<>>]
        ELSE [err |-> "none", words |-> IF inverse THEN Reverse(w) ELSE w]

\* to_int32 / to_uint32 / to_long64 / to_ulong64 (words, 0, inverse): the number
\* the words denote.  A number beyond 32 bits, which the checker's integers cannot
\* hold, is denoted by its words, most significant first.
to_int(words, signed, inverse) ==
    LET ms   == IF inverse THEN words ELSE Reverse(words)
        n    == Len(ms)
        lead == SubSeq(ms, 1, n - 2)
        hi   == ms[n - 1]
        lo   == ms[n]
    IN  IF hi < WordBase \div 2 /\ \A i \in 1..Len(lead) : lead[i] = 0
        THEN hi * WordBase + lo
        ELSE IF /\ signed
                /\ hi >= WordBase \div 2
                /\ \A i \in 1..Len(lead) : lead[i] = WordBase - 1
        THEN (hi - WordBase) * WordBase + lo
        ELSE [words |-> ms]

\* from_string(text, inverse): two characters per word, the first one in the high
\* byte for big order and in the low byte otherwise; an odd tail is padded with NUL.
RECURSIVE from_string(_, _)
from_string(text, inverse) ==
    IF text = <<>> THEN <<>>
    ELSE LET c1 == text[1]
             c2 == IF Len(text) >= 2 THEN text[2] ELSE 0
             w  == IF inverse THEN c1 * ByteBase + c2 ELSE c2 * ByteBase + c1
         IN  <<w>> \o from_string(Slice(text, 2, Len(text)), inverse)

\* text without its trailing NUL characters.
RECURSIVE StripNul(_)
StripNul(text) ==
    IF text = <<>> THEN <<>>
    ELSE IF text[Len(text)] = 0 THEN StripNul(Slice(text, 0, Len(text) - 1))
    ELSE text

\* The two characters of each word, in order.
RECURSIVE Unpack(_, _)
Unpack(words, inverse) ==
    IF words = <<>> THEN <<>>
    ELSE LET hi == Head(words) \div ByteBase
             lo == Head(words) % ByteBase
         IN  (IF inverse THEN <<hi, lo>> ELSE <<lo, hi>>) \o Unpack(Tail(words), inverse)

\* to_string(words, inverse)
to_string(words, inverse) == StripNul(Unpack(words, inverse))

----------------------------------------------------------------------------
\* main.MainWindow: typed register write and read through a runtime's context.

\* MainWindow.get_register_size
get_register_size(data_type) ==
    CASE data_type = "uint16" -> 1
      [] data_type \in {"int32", "uint32", "float32"} -> 2
      [] data_type \in {"int64", "uint64", "double64"} -> 4
      [] OTHER -> 1

\* for i, w in enumerate(words): rt.set_register(table, addr + i, w), stopping at
\* the first call that raises: [err, ctx]
RECURSIVE SetWords(_, _, _, _)
SetWords(c, table, addr, words) ==
    IF words = <<>> THEN [err |-> "none", ctx |-> c]
    ELSE LET r == Ctx_set(c, table, addr, Head(words))
         IN  IF r.err # "none" THEN r
             ELSE SetWords(r.ctx, table, addr + 1, Tail(words))

\* Writes what a codec call returned, or nothing if it raised.
WriteEncoded(c, reg, enc) ==
    IF enc.err # "none" THEN [err |-> enc.err, ctx |-> c]
    ELSE SetWords(c, reg.table, reg.address, enc.words)

\* MainWindow.write_register_value: [err, ctx]; err is what the except clause
\* caught and printed ("none" if nothing was raised), the caller never sees it.
write_register_value(c, reg, value) ==
    LET inverse == (reg.endian = "big")
        dt      == reg.data_type
    IN  CASE dt = "uint16" -> SetWords(c, reg.table, reg.address, <<value>>)
          [] dt = "int32"  -> WriteEncoded(c, reg, from_int(value, 2, TRUE, inverse))
          [] dt = "uint32" -> WriteEncoded(c, reg, from_int(value, 2, FALSE, inverse))
          [] dt = "int64"  -> WriteEncoded(c, reg, from_int(value, 4, TRUE, inverse))
          [] dt = "uint64" -> WriteEncoded(c, reg, from_int(value, 4, FALSE, inverse))
          [] dt = "string" ->
                WriteEncoded(c, reg, [err |-> "none", words |-> from_string(value, inverse)])
          [] OTHER -> [err |-> "none", ctx |-> c]

\* for i in range(size): w = rt.get_register(table, addr + i): [err, words]
RECURSIVE GetWords(_, _, _, _)
GetWords(c, table, addr, size) ==
    IF size = 0 THEN [err |-> "none", words |-> <<>>]
    ELSE LET r == Ctx_get(c, table, addr)
         IN  IF r.err # "none" THEN [err |-> r.err, words |-> <<>>]
             ELSE LET rest == GetWords(c, table, addr + 1, size - 1)
                  IN  IF rest.err # "none" THEN rest
                      ELSE [err |-> "none", words |-> <<r.ret>> \o rest.words]

\* Python's None as a read result, and a value as one.
None == [none |-> TRUE, val |-> 0]
Some(v) == [none |-> FALSE, val |-> v]

\* MainWindow.read_register_value
read_register_value(c, reg) ==
    LET inverse == (reg.endian = "big")
        dt      == reg.data_type
        got     == GetWords(c, reg.table, reg.address, get_register_size(dt))
    IN  IF got.err # "none" THEN None
        ELSE CASE dt = "uint16" -> Some(got.words[1])
               [] dt = "int32"  -> Some(to_int(got.words, TRUE, inverse))
               [] dt = "uint32" -> Some(to_int(got.words, FALSE, inverse))
               [] dt = "int64"  -> Some(to_int(got.words, TRUE, inverse))
               [] dt = "uint64" -> Some(to_int(got.words, FALSE, inverse))
               [] dt = "string" -> Some(to_string(got.words, inverse))
               [] OTHER -> None

\* RegisterDialog.get_data: the registers the dialog can configure.  Coils and
\* discrete inputs are fixed to bool; the string length is kept for strings only.
DataTypes == {"uint16", "int32", "uint32", "int64", "uint64", "string", "bool"}
Registers ==
    {r \in [table : Tables, address : 0..MaxAddr, data_type : DataTypes,
            endian : {"big", "little"}, string_length : 0..2] :
        /\ r.table \in {"co", "di"} => r.data_type = "bool"
        /\ r.data_type = "string" <=> r.string_length > 0}

\* Values of each data type's range that the operator enters.
TypeValues(dt) ==
    CASE dt = "uint16" -> {0, 7, WordBase - 1}
      [] dt = "int32"  -> {-2, 70007}
      [] dt = "uint32" -> {7, 70007}
      [] dt = "int64"  -> {-2, 70007}
      [] dt = "uint64" -> {7, 70007}
      [] dt = "string" -> {<<65>>, <<65, 66>>, <<65, 66, 67>>}
      [] dt = "bool"   -> {0, 1}

InitReg == InitCtx

\* write_register_value(rt, reg, value) on the runtime's context
WriteRegister ==
    /\ nops < MaxRegOps
    /\ \E reg \in Registers :
        \E v \in TypeValues(reg.data_type) :
            /\ ctx' = write_register_value(ctx, reg, v).ctx
            /\ rw' = [phase |-> "written", reg |-> reg, value |-> v, got |-> None]
    /\ nops' = nops + 1
    /\ UNCHANGED <<blk, written, res, lifeVars, editVars, concVars>>

\* read_register_value(rt, reg) on the runtime's context
ReadRegister ==
    /\ nops < MaxRegOps
    /\ rw.phase # "none"
    /\ \E reg \in Registers :
        rw' = [phase |-> "read", reg |-> reg,
               value |-> IF rw.phase = "written" /\ rw.reg = reg
                         THEN Some(rw.value) ELSE None,
               got |-> read_register_value(ctx, reg)]
    /\ nops' = nops + 1
    /\ UNCHANGED <<blk, written, res, ctx, lifeVars, editVars, concVars>>

NextReg == WriteRegister \/ ReadRegister

SpecReg == InitReg /\ [][NextReg]_vars

\* The value a register of the given string length can hold of a written one.
Representable(reg, v) ==
    IF reg.data_type = "string" THEN Slice(v, 0, reg.string_length * 2) ELSE v

\* C5: for every data type and both word orders, read_register_value right after
\* write_register_value(v) on the same register returns v (a string cut to
\* stringLength*2 characters).
C5_RoundTrip ==
    (rw.phase = "read" /\ ~rw.value.none) =>
        /\ ~rw.got.none
        /\ rw.got.val = Representable(rw.reg, rw.value.val)

----------------------------------------------------------------------------
\* SalveHandler.SlaveRuntime: the listener lifecycle.
\*
\* A runtime is [running, stop_event, shutdown_complete, thread] as __init__ sets
\* them, plus life, the lifecycle the calls put it in: "stopped" until start()
\* passes its guard, "started" until stop() is entered, "stopping" until stop()
\* returns.  A worker thread is [rt, pc, sig, bindFailed]: pc is its place in
\* _run_server_thread, sig says that ServerStop() reached its serving listener.
\* The slave has one transport (host:port or serial device): port.
\*
\* StartTcpServer, StartSerialServer and ServerStop belong to pymodbus.  They are
\* taken by their contract: Start...Server binds the transport or raises, and
\* serves until it is told to stop; ServerStop() takes no argument, tells the
\* listeners that are serving to shut down, and returns.  When a listener that
\* was told to stop actually returns is up to the worker's timing.

\* SlaveRuntime.__init__
SlaveRuntime ==
    [running |-> FALSE, stop_event |-> FALSE, shutdown_complete |-> FALSE,
     thread |-> NoThread, life |-> "stopped"]

\* threading.Thread(target=self._run_server_thread), started
NewThread(r) == [rt |-> r, pc |-> "spawned", sig |-> FALSE, bindFailed |-> FALSE]

\* Thread.is_alive()
is_alive(t) == thr[t].pc # "dead"

\* The runtime is starting or listening: started, not asked to stop, and the
\* worker of this start has not left its listener.
Active(r) ==
    /\ rts[r].life = "started"
    /\ rts[r].thread # NoThread
    /\ thr[rts[r].thread].pc \in {"spawned", "bind", "serving"}

\* SlaveRuntime.start up to self._thread.start(): [rts, thr, spawned]
start_body(rs, th, r) ==
    IF rs[r].running
    THEN [rts |-> rs, thr |-> th, spawned |-> FALSE]
    ELSE [rts |-> [rs EXCEPT ![r].running = TRUE,
                             ![r].stop_event = FALSE,
                             ![r].shutdown_complete = FALSE,
                             ![r].thread = Len(th) + 1,
                             ![r].life = "started"],
          thr |-> Append(th, NewThread(r)),
          spawned |-> TRUE]

\* The control thread enters rt.start().
EnterStart(rs, r, mw) ==
    LET st == start_body(rs, thr, r)
    IN  /\ rts' = st.rts
        /\ thr' = st.thr
        /\ ctl' = [Idle EXCEPT !.op = "start", !.rt = r, !.mw = mw,
                               !.pc = IF st.spawned THEN "start_emit" ELSE "idle",
                               !.preStopped = (rs[r].life = "stopped"),
                               !.preActive = (r <= Len(rts) /\ Active(r)),
                               !.spawned = st.spawned]
        /\ nops' = nops + 1

\* SlaveRuntime.start, line 36: self.status_changed.emit("starting")
StartEmit ==
    /\ ctl.pc = "start_emit"
    /\ status' = Append(status, <<ctl.rt, "starting">>)
    /\ ctl' = [ctl EXCEPT !.pc = "idle", !.emitted = TRUE]
    /\ UNCHANGED <<rts, thr, port, runtimes, nops, storeVars, editVars, concVars>>

\* The control thread enters rt.stop(): lines 40-42, up to ServerStop().
EnterStop(r, mw) ==
    /\ rts' = [rts EXCEPT ![r].running = FALSE, ![r].stop_event = TRUE,
                          ![r].life = "stopping"]
    /\ thr' = [t \in 1..Len(thr) |->
                 IF thr[t].pc = "serving" THEN [thr[t] EXCEPT !.sig = TRUE] ELSE thr[t]]
    /\ ctl' = [Idle EXCEPT !.op = "stop", !.rt = r, !.mw = mw, !.pc = "stop_wait",
                           !.preStopped = (rts[r].life = "stopped"),
                           !.preActive = Active(r),
                           !.changed = (rts[r].running \/ ~rts[r].stop_event)]
    /\ nops' = nops + 1

\* stop() whose wait has no timeout: it goes on only once the event is set.
StopWait_NoTimeout ==
    /\ ctl.pc = "stop_wait"
    /\ rts[ctl.rt].shutdown_complete
    /\ ctl' = [ctl EXCEPT !.pc = "stop_join"]
    /\ UNCHANGED <<rts, thr, port, status, runtimes, nops, storeVars, editVars, concVars>>

\* SlaveRuntime.stop, lines 44-47: self._shutdown_complete.wait(timeout=0.1)
\* returns; a warning is printed if the event is not set by then.
StopWait ==
    /\ ctl.pc = "stop_wait"
    /\ ctl' = [ctl EXCEPT !.pc = "stop_join",
                          !.warned = ~rts[ctl.rt].shutdown_complete]
    /\ UNCHANGED <<rts, thr, port, status, runtimes, nops, storeVars, editVars, concVars>>

\* SlaveRuntime.stop, lines 50-54: the join with its timeout returns; a warning
\* is printed if the thread is alive after it.
StopJoin ==
    /\ ctl.pc = "stop_join"
    /\ LET t == rts[ctl.rt].thread
       IN  ctl' = [ctl EXCEPT !.pc = "stop_emit",
                              !.warned = @ \/ (t # NoThread /\ is_alive(t))]
    /\ UNCHANGED <<rts, thr, port, status, runtimes, nops, storeVars, editVars, concVars>>

\* SlaveRuntime.stop, lines 56-58: the settle delay, then
\* self.status_changed.emit("stopped"); stop_selected_slave goes on with
\* del self.runtimes[name] (main.py line 310).
StopEmit ==
    /\ ctl.pc = "stop_emit"
    /\ status' = Append(status, <<ctl.rt, "stopped">>)
    /\ rts' = [rts EXCEPT ![ctl.rt].life = "stopped"]
    /\ LET t == rts[ctl.rt].thread
       IN  ctl' = [ctl EXCEPT !.pc = "idle", !.emitted = TRUE,
                              !.aliveAtEnd = (t # NoThread /\ is_alive(t))]
    /\ runtimes' = IF ctl.mw THEN 0 ELSE runtimes
    /\ UNCHANGED <<thr, port, nops, storeVars, editVars, concVars>>

\* The steps of a stop() in progress.
StopStep == StopWait \/ StopJoin \/ StopEmit

\* _run_tcp_server / _run_serial_server up to the status emission (lines 64-90,
\* 105-116): self.status_changed.emit("Listening ...")
WorkerListen ==
    \E t \in 1..Len(thr) :
        /\ thr[t].pc = "spawned"
        /\ status' = Append(status, <<thr[t].rt, "Listening">>)
        /\ thr' = [thr EXCEPT ![t].pc = "bind"]
        /\ UNCHANGED <<rts, port, ctl, runtimes, nops, storeVars, editVars, concVars>>

\* StartTcpServer / StartSerialServer binds the transport, or raises because it
\* is held; the exception is caught and printed (lines 93-102, 119-150).
WorkerBind ==
    \E t \in 1..Len(thr) :
        /\ thr[t].pc = "bind"
        /\ IF port = NoThread
           THEN /\ port' = t
                /\ thr' = [thr EXCEPT ![t].pc = "serving"]
           ELSE /\ port' = port
                /\ thr' = [thr EXCEPT ![t].pc = "exiting", ![t].bindFailed = TRUE]
        /\ UNCHANGED <<rts, ctl, status, runtimes, nops, storeVars, editVars, concVars>>

\* The listener that ServerStop() reached shuts down: Start...Server returns and
\* the transport is released.
WorkerServerExit ==
    \E t \in 1..Len(thr) :
        /\ thr[t].pc = "serving"
        /\ thr[t].sig
        /\ port' = NoThread
        /\ thr' = [thr EXCEPT ![t].pc = "exiting"]
        /\ UNCHANGED <<rts, ctl, status, runtimes, nops, storeVars, editVars, concVars>>

\* _run_server_thread, line 83: self._running = False
WorkerFinally ==
    \E t \in 1..Len(thr) :
        /\ thr[t].pc = "exiting"
        /\ rts' = [rts EXCEPT ![thr[t].rt].running = FALSE]
        /\ thr' = [thr EXCEPT ![t].pc = "fin"]
        /\ UNCHANGED <<port, ctl, status, runtimes, nops, storeVars, editVars, concVars>>

\* _run_server_thread, line 84: self._shutdown_complete.set()
WorkerShutdownComplete ==
    \E t \in 1..Len(thr) :
        /\ thr[t].pc = "fin"
        /\ rts' = [rts EXCEPT ![thr[t].rt].shutdown_complete = TRUE]
        /\ thr' = [thr EXCEPT ![t].pc = "ending"]
        /\ UNCHANGED <<port, ctl, status, runtimes, nops, storeVars, editVars, concVars>>

\* _run_server_thread returns: the thread is no longer alive.
WorkerReturn ==
    \E t \in 1..Len(thr) :
        /\ thr[t].pc = "ending"
        /\ thr' = [thr EXCEPT ![t].pc = "dead"]
        /\ UNCHANGED <<rts, port, ctl, status, runtimes, nops, storeVars, editVars, concVars>>

----------------------------------------------------------------------------
\* SpecApi: one SlaveRuntime driven through its public API, start() and stop()
\* in any order from one control thread.

InitApi ==
    /\ blk = DynamicDataBlock(0, <<>>)
    /\ written = [a \in Cells |-> Unwritten]
    /\ res = NoCall
    /\ ctx = SimpleModbusContext
    /\ nops = 0
    /\ rw = NoAccess
    /\ rts = <<SlaveRuntime>>
    /\ thr = <<>>
    /\ port = NoThread
    /\ ctl = Idle
    /\ status = <<>>
    /\ runtimes = 0
    /\ registers = <<>>
    /\ dlg = NoDialog
    /\ slaves = <<>>
    /\ view = NoTable
    /\ jobs = NoJobs

\* rt.start()
ApiStart ==
    /\ ctl.pc = "idle"
    /\ nops < MaxLifeOps
    /\ EnterStart(rts, 1, FALSE)
    /\ UNCHANGED <<port, status, runtimes, storeVars, editVars, concVars>>

\* rt.stop()
ApiStop ==
    /\ ctl.pc = "idle"
    /\ nops < MaxLifeOps
    /\ EnterStop(1, FALSE)
    /\ UNCHANGED <<port, status, runtimes, storeVars, editVars, concVars>>

NextApi ==
    \/ ApiStart
    \/ StartEmit
    \/ ApiStop
    \/ StopWait
    \/ StopJoin
    \/ StopEmit
    \/ WorkerListen
    \/ WorkerBind
    \/ WorkerServerExit
    \/ WorkerFinally
    \/ WorkerShutdownComplete
    \/ WorkerReturn

SpecApi == InitApi /\ [][NextApi]_vars

----------------------------------------------------------------------------
\* main.MainWindow: the register definitions of the slave.

\* for reg in slave.get('registers', []): self.write_register_value(rt, reg,
\* reg.get('value', 0)); what a write raises is caught and printed.
RECURSIVE LoadRegisters(_, _)
LoadRegisters(c, regs) ==
    IF regs = <<>> THEN c
    ELSE LoadRegisters(write_register_value(c, Head(regs), Head(regs).value).ctx,
                       Tail(regs))

----------------------------------------------------------------------------
\* SpecMain: MainWindow's Start Selected / Stop Selected on one slave.  Every
\* start builds a new SlaveRuntime for the slave; the transport is the slave's.

InitMain == InitCtx

\* MainWindow.start_selected_slave: refused while the slave is in runtimes, else
\* rt = SlaveRuntime(slave), with a context of its own; the slave's registers
\* are written to it; self.runtimes[name] = rt; rt.start()
MwStart ==
    /\ ctl.pc = "idle"
    /\ nops < MaxLifeOps
    /\ IF runtimes # 0
       THEN /\ ctl' = [Idle EXCEPT !.op = "start_refused", !.rt = runtimes, !.mw = TRUE]
            /\ nops' = nops + 1
            /\ UNCHANGED <<rts, thr, runtimes, ctx>>
       ELSE /\ EnterStart(Append(rts, SlaveRuntime), Len(rts) + 1, TRUE)
            /\ runtimes' = Len(rts) + 1
            /\ ctx' = LoadRegisters(SimpleModbusContext, registers)
    /\ UNCHANGED <<port, status, blk, written, res, rw, editVars, concVars>>

\* MainWindow.stop_selected_slave: refused while the slave is not in runtimes,
\* else rt.stop(); del self.runtimes[name]
MwStop ==
    /\ ctl.pc = "idle"
    /\ nops < MaxLifeOps
    /\ IF runtimes = 0
       THEN /\ ctl' = [Idle EXCEPT !.op = "stop_refused", !.mw = TRUE]
            /\ nops' = nops + 1
            /\ UNCHANGED <<rts, thr>>
       ELSE EnterStop(runtimes, TRUE)
    /\ UNCHANGED <<port, status, runtimes, storeVars, editVars, concVars>>

NextMain ==
    \/ MwStart
    \/ StartEmit
    \/ MwStop
    \/ StopWait
    \/ StopJoin
    \/ StopEmit
    \/ WorkerListen
    \/ WorkerBind
    \/ WorkerServerExit
    \/ WorkerFinally
    \/ WorkerShutdownComplete
    \/ WorkerReturn

SpecMain == InitMain /\ [][NextMain]_vars

\* The control thread is scheduled: a stop() in progress takes its next step,
\* since the wait, the join and the sleep of stop() all return within their
\* timeouts.  Nothing is assumed of the worker threads.
SpecApiFair == SpecApi /\ WF_vars(StopStep)

----------------------------------------------------------------------------
\* The threads of runtime r.
ThreadsOf(r) == {t \in 1..Len(thr) : thr[t].rt = r}

\* The listener threads that are alive.
AliveThreads == {t \in 1..Len(thr) : is_alive(t)}

\* C6: whenever stop() has returned, the listener of that runtime has released
\* the transport, and a start() issued afterwards on the same transport binds:
\* no runtime that is stopped has a thread holding the transport, and no worker
\* ever fails to bind, for every timing of the worker threads.
C6_RestartBinds ==
    /\ \A r \in 1..Len(rts) : rts[r].life = "stopped" => port \notin ThreadsOf(r)
    /\ \A t \in 1..Len(thr) : ~thr[t].bindFailed

\* C7: at every reachable state, under any sequence of start/stop actions of the
\* operator on one slave and any worker timing, at most one listener thread of
\* the slave is alive.
C7_OneListenerAlive == Cardinality(AliveThreads) <= 1

\* C8: a stop() called when the lifecycle is already stopped (never started, or
\* after a previous stop()) is a no-op: once it has returned, it has changed no
\* lifecycle flag and emitted no status.
C8_StopWhenStoppedIsNoOp ==
    (ctl.op = "stop" /\ ctl.pc = "idle" /\ ctl.preStopped)
        => (~ctl.emitted /\ ~ctl.changed)

\* C9: a start() called while the runtime is starting or listening spawns no
\* thread, emits no status and changes no lifecycle state.
C9_StartWhenActiveIsNoOp ==
    (ctl.op = "start" /\ ctl.preActive)
        => (~ctl.spawned /\ ~ctl.emitted /\ ctl.pc = "idle")

\* C10: every call of stop() terminates and ends with the "stopped" status,
\* whatever the worker thread does (also if it never exits); if the worker is
\* still alive when stop() ends, a warning was reported before "stopped".
C10_StopTerminates ==
    /\ [][(ctl.op = "stop" /\ ctl.pc # "idle" /\ ctl'.pc = "idle")
            => /\ status' = Append(status, <<ctl.rt, "stopped">>)
               /\ ctl'.aliveAtEnd => ctl.warned]_vars
    /\ (ctl.op = "stop" /\ ctl.pc = "stop_wait")
           ~> (ctl.op = "stop" /\ ctl.pc = "idle" /\ ctl.emitted)

\* C10: a stop() has returned with "stopped" after warning, its worker still
\* alive and serving.
C10_Witness ==
    /\ ctl.op = "stop" /\ ctl.pc = "idle" /\ ctl.emitted
    /\ ctl.aliveAtEnd /\ ctl.warned
    /\ status[Len(status)] = <<ctl.rt, "stopped">>
    /\ thr[rts[ctl.rt].thread].pc = "serving"

----------------------------------------------------------------------------
\* The status notifications of the lifecycle.

\* C11: every stop() issued while the lifecycle is listening passes through a
\* "stopping" phase: once such a stop() has returned, a "stopping" status of the
\* runtime was notified (the listener it found serving is the one ServerStop()
\* reached).
C11_StoppingPhase ==
    (ctl.op = "stop" /\ ctl.pc = "idle" /\ ctl.preActive
        /\ thr[rts[ctl.rt].thread].sig)
        => \E i \in 1..Len(status) : status[i] = <<ctl.rt, "stopping">>

\* The status texts notified so far for runtime r, in order.
StatusOf(r) ==
    LET own == SelectSeq(status, LAMBDA e : e[1] = r)
    IN  [i \in 1..Len(own) |-> own[i][2]]

\* The last status notified for runtime r ("" if none).
LastStatus(r) ==
    IF StatusOf(r) = <<>> THEN "" ELSE StatusOf(r)[Len(StatusOf(r))]

----------------------------------------------------------------------------
\* SpecShared: MainWindow's Start Selected / Stop Selected on one slave while a
\* second slave, configured with the same transport (add_slave_dialog only
\* requires the names to differ), is running: its runtime is runtime 1, its
\* worker thread 1 holds the transport and serves.

InitShared ==
    /\ blk = DynamicDataBlock(0, <<>>)
    /\ written = [a \in Cells |-> Unwritten]
    /\ res = NoCall
    /\ ctx = SimpleModbusContext
    /\ nops = 0
    /\ rw = NoAccess
    /\ rts = <<[SlaveRuntime EXCEPT !.running = TRUE, !.thread = 1, !.life = "started"]>>
    /\ thr = <<[NewThread(1) EXCEPT !.pc = "serving"]>>
    /\ port = 1
    /\ ctl = Idle
    /\ status = <<<<1, "starting">>, <<1, "Listening">>>>
    /\ runtimes = 0
    /\ registers = <<>>
    /\ dlg = NoDialog
    /\ slaves = <<>>
    /\ view = NoTable
    /\ jobs = NoJobs

SpecShared == InitShared /\ [][NextMain]_vars

\* The transport is held by the listener of another slave that is running: of a
\* runtime that was started and not stopped, other than the selected slave's.
HeldByOtherSlave ==
    /\ port # NoThread
    /\ thr[port].rt # runtimes
    /\ rts[thr[port].rt].life = "started"

\* C12: if the listener fails to bind (StartTcpServer / StartSerialServer
\* raises), an "error" status with the cause is notified, and once the listener
\* thread has ended the last notified status of its runtime is not "Listening".
C12_BindFailureReported ==
    \A t \in 1..Len(thr) :
        (thr[t].bindFailed /\ thr[t].pc = "dead")
            => /\ \E i \in 1..Len(status) : status[i] = <<thr[t].rt, "error">>
               /\ LastStatus(thr[t].rt) # "Listening"

\* C19: starting a slave whose transport is bound by another running slave is
\* rejected: once start_selected_slave has returned, the slave is not recorded
\* in runtimes while the other slave's listener holds the transport.
C19_ConflictRejected ==
    (ctl.op = "start" /\ ctl.pc = "idle" /\ HeldByOtherSlave) => runtimes = 0

\* How many of the first i status texts of s are x.
CountUpTo(s, x, i) == Cardinality({j \in 1..i : s[j] = x})

\* C13: in every start cycle "starting" is emitted before "Listening": at every
\* point of a runtime's status sequence, no more "Listening" than "starting"
\* statuses have been emitted, under every interleaving of the control thread
\* and the worker threads.
C13_StartingBeforeListening ==
    \A r \in 1..Len(rts) :
        \A i \in 1..Len(StatusOf(r)) :
            CountUpTo(StatusOf(r), "Listening", i) <= CountUpTo(StatusOf(r), "starting", i)

----------------------------------------------------------------------------
\* SpecEdit: the operator adds, edits and removes registers of the selected
\* slave and starts and stops it.  ctx is the context of the slave's runtime.

\* Operator calls (start, stop, add, edit, remove) in one run of SpecEdit that
\* may still be followed by a register add, edit or remove.
MaxEditOps == 3

\* The value the operator enters in the dialog for a register of each type.
DialogValue(dt) ==
    CASE dt = "string" -> <<65, 66, 67>>
      [] dt = "bool"   -> 1
      [] OTHER         -> 7

\* The register definitions the operator enters in the dialog.
DialogInputs ==
    {q \in Registers : /\ q.table \in {"hr", "co"}
                       /\ q.endian = "big"
                       /\ q.data_type \in {"uint16", "int32", "string", "bool"}}

\* RegisterDialog.get_data: what the dialog accepted on input q returns.
get_data(q) ==
    [table |-> q.table, address |-> q.address, data_type |-> q.data_type,
     endian |-> q.endian, string_length |-> q.string_length,
     value |-> DialogValue(q.data_type)]

\* range(a['address'], a['address'] + size_a) and the same of b have an address
\* in common.
RangesMeet(a, size_a, b, size_b) ==
    \E addr \in a.address..(a.address + size_a - 1) :
        addr \in b.address..(b.address + size_b - 1)

\* add_register_dialog's overlap loop: some register of the same table has a
\* range, by get_register_size, that meets the new one's.
add_rejects(regs, r) ==
    \E k \in 1..Len(regs) :
        /\ regs[k].table = r.table
        /\ RangesMeet(r, get_register_size(r.data_type),
                      regs[k], get_register_size(regs[k].data_type))

\* What a register operation leaves in dlg: the register, whether it was taken,
\* whether the slave was running, the size used for it, and the register list
\* and the context before and after.
Outcome(op, r, accepted, regs, c) ==
    [op |-> op, r |-> r, accepted |-> accepted, running |-> runtimes # 0,
     size |-> get_register_size(r.data_type),
     pre |-> registers, prectx |-> ctx, post |-> regs, postctx |-> c]

\* The write to the running runtime that follows an accepted add or edit.
WriteIfRunning(r) ==
    IF runtimes # 0 THEN write_register_value(ctx, r, r.value).ctx ELSE ctx

\* MainWindow.add_register_dialog, the dialog accepted with r
AddRegister ==
    /\ ctl.pc = "idle"
    /\ nops < MaxEditOps
    /\ \E q \in DialogInputs :
        LET r == get_data(q)
        IN  IF add_rejects(registers, r)
            THEN /\ dlg' = Outcome("add", r, FALSE, registers, ctx)
                 /\ UNCHANGED <<registers, ctx>>
            ELSE /\ registers' = Append(registers, r)
                 /\ ctx' = WriteIfRunning(r)
                 /\ dlg' = Outcome("add", r, TRUE, registers', ctx')
    /\ nops' = nops + 1
    /\ UNCHANGED <<blk, written, res, rw, lifeVars, concVars, slaves, view>>

\* MainWindow.edit_selected_register on row reg_row, the dialog accepted with r
EditRegister ==
    /\ ctl.pc = "idle"
    /\ nops < MaxEditOps
    /\ \E reg_row \in 1..Len(registers) :
        \E q \in DialogInputs :
            LET r == get_data(q)
            IN  /\ registers' = [registers EXCEPT ![reg_row] = r]
                /\ ctx' = WriteIfRunning(r)
                /\ dlg' = Outcome("edit", r, TRUE, registers', ctx')
    /\ nops' = nops + 1
    /\ UNCHANGED <<blk, written, res, rw, lifeVars, concVars, slaves, view>>

\* MainWindow.remove_selected_register on row reg_row
RemoveRegister ==
    /\ ctl.pc = "idle"
    /\ nops < MaxEditOps
    /\ \E reg_row \in 1..Len(registers) :
        /\ registers' = SubSeq(registers, 1, reg_row - 1)
                            \o SubSeq(registers, reg_row + 1, Len(registers))
        /\ dlg' = Outcome("remove", registers[reg_row], TRUE, registers', ctx)
    /\ nops' = nops + 1
    /\ UNCHANGED <<blk, written, res, ctx, rw, lifeVars, concVars, slaves, view>>

InitEdit == InitCtx

NextEdit ==
    \/ AddRegister
    \/ EditRegister
    \/ RemoveRegister
    \/ MwStart
    \/ StartEmit
    \/ MwStop
    \/ StopWait
    \/ StopJoin
    \/ StopEmit
    \/ WorkerListen
    \/ WorkerBind
    \/ WorkerServerExit
    \/ WorkerFinally
    \/ WorkerShutdownComplete
    \/ WorkerReturn

SpecEdit == InitEdit /\ [][NextEdit]_vars

\* The words a register takes: 1 for uint16 and bool, 2 for the 32-bit types,
\* 4 for the 64-bit types, stringLength for a string.
WordSize(r) ==
    CASE r.data_type \in {"uint16", "bool"} -> 1
      [] r.data_type \in {"int32", "uint32", "float32"} -> 2
      [] r.data_type \in {"int64", "uint64", "double64"} -> 4
      [] r.data_type = "string" -> r.string_length

\* Register r's word range meets that of a register of its class in regs.
Clashes(r, regs) ==
    \E k \in 1..Len(regs) :
        /\ regs[k].table = r.table
        /\ RangesMeet(r, WordSize(r), regs[k], WordSize(regs[k]))

\* C14: after any sequence of register adds, edits and removes, no two registers
\* of the same class have overlapping word ranges
\* [address, address + size(dataType, stringLength)).
C14_NoOverlap ==
    \A i, j \in 1..Len(registers) :
        (i < j /\ registers[i].table = registers[j].table)
            => ~RangesMeet(registers[i], WordSize(registers[i]),
                           registers[j], WordSize(registers[j]))

\* C15: add_register_dialog rejects a new register whose word range meets that
\* of an existing register of the same class, leaving the register list and the
\* store as they were; it rejects for no other reason (never for a register of
\* another class).
C15_AddRejectsOverlap ==
    dlg.op = "add" =>
        /\ Clashes(dlg.r, dlg.pre)
              => (~dlg.accepted /\ dlg.post = dlg.pre /\ dlg.postctx = dlg.prectx)
        /\ ~dlg.accepted => Clashes(dlg.r, dlg.pre)

\* C16: an add, edit or remove of a register issued while the slave is running
\* (it has a runtime) is refused: it changes neither the register list nor the
\* store.
C16_EditOnlyWhenStopped ==
    (dlg.op # "none" /\ dlg.running)
        => (~dlg.accepted /\ dlg.post = dlg.pre /\ dlg.postctx = dlg.prectx)

\* C18: the register size the program uses (get_register_size, in the overlap
\* check and the read) is 1 word for uint16 and bool, 2 for the 32-bit types, 4
\* for the 64-bit types and stringLength words for a string.
C18_RegisterSize ==
    dlg.op # "none" => dlg.size = WordSize(dlg.r)

----------------------------------------------------------------------------
\* SpecRange: facade writes and operator writes to uint16 registers with
\* integers inside and outside the 16-bit range.

\* Writes in one run of SpecRange.
MaxRangeOps == 2

\* Integers a caller passes: below, inside and above 0..65535.
AnyValues == {0 - 1, 7, WordBase - 1, WordBase, 70007}

InitRange == InitCtx

\* context.set(table, address, value) with any integer
RangeSet ==
    /\ nops < MaxRangeOps
    /\ \E t \in Tables, a \in 0..MaxAddr, v \in AnyValues :
        LET r == Ctx_set(ctx, t, a, v)
        IN  /\ ctx' = r.ctx
            /\ res' = [NoCall EXCEPT !.op = "set", !.table = t, !.address = a,
                                     !.values = <<v>>, !.err = r.err, !.pre = ctx]
    /\ nops' = nops + 1
    /\ UNCHANGED <<blk, written, regVars, lifeVars, editVars, concVars>>

\* write_register_value(rt, reg, value) for a uint16 register with any integer
RangeWrite ==
    /\ nops < MaxRangeOps
    /\ \E reg \in {q \in Registers : q.data_type = "uint16"} :
        \E v \in AnyValues :
            LET r == write_register_value(ctx, reg, v)
            IN  /\ ctx' = r.ctx
                /\ res' = [NoCall EXCEPT !.op = "write", !.table = reg.table,
                                         !.address = reg.address, !.values = <<v>>,
                                         !.err = r.err, !.pre = ctx]
    /\ nops' = nops + 1
    /\ UNCHANGED <<blk, written, regVars, lifeVars, editVars, concVars>>

NextRange == RangeSet \/ RangeWrite

SpecRange == InitRange /\ [][NextRange]_vars

\* C17: after any sequence of facade set() calls and operator writes to uint16
\* registers with any integer, every cell of every store holds an integer in
\* 0..65535, and a value outside that range was signalled (the call raised)
\* rather than stored.
C17_CellsAre16Bit ==
    /\ \A t \in Tables : \A i \in 1..Len(ctx[t].values) :
           ctx[t].values[i] \in 0..(WordBase - 1)
    /\ (res.op \in {"set", "write"} /\ res.values[1] \notin 0..(WordBase - 1))
           => res.err # "none"

----------------------------------------------------------------------------
\* SpecConc: the UI thread (SimpleModbusContext.set, one value per call) and the
\* listener thread (a client's write request, one or more values) call
\* setValues on the same DynamicDataBlock blk.  No lock is taken anywhere, so
\* the interpreter may switch threads between the list operations of setValues:
\* the two len() reads, the extend, and each item assignment of the loop.

\* Calls of context.set the UI thread issues in one run of SpecConc.
MaxUiWrites == 2

Threads == {"ui", "listener"}

\* A thread outside setValues, about to issue write k of its writes.
Job(writes) ==
    [writes |-> writes, k |-> 1, pc |-> "idle", start |-> 0, end |-> 0, n |-> 0,
     i |-> 0, raised |-> FALSE]

\* One setValues call: [address, values].
UiWrites == [address : 0..MaxAddr, values : [1..1 -> Values]]
ListenerWrites == [address : 0..MaxAddr, values : ValueLists(MaxCount)]

\* The block the threads share: SimpleModbusContext's block of one table.
SharedBlock == DynamicDataBlock(0, Zeros(BlockSize))

InitConc ==
    /\ blk = SharedBlock
    /\ written = [a \in Cells |-> Unwritten]
    /\ res = NoCall
    /\ ctx = SimpleModbusContext
    /\ nops = 0
    /\ rw = NoAccess
    /\ rts = <<>>
    /\ thr = <<>>
    /\ port = NoThread
    /\ ctl = Idle
    /\ status = <<>>
    /\ runtimes = 0
    /\ registers = <<>>
    /\ dlg = NoDialog
    /\ slaves = <<>>
    /\ view = NoTable
    /\ \E u \in UNION {[1..m -> UiWrites] : m \in 1..MaxUiWrites} :
         \E l \in ListenerWrites :
            jobs = [th \in Threads |-> IF th = "ui" THEN Job(u) ELSE Job(<<l>>)]

\* The write thread th is in.
CurrentWrite(th) == jobs[th].writes[jobs[th].k]

\* setValues, lines 50-55: start = address - self.address; raise IndexError if
\* it is negative; end = start + len(values)
SetValuesEnter(th) ==
    /\ jobs[th].pc = "idle"
    /\ jobs[th].k <= Len(jobs[th].writes)
    /\ LET w     == CurrentWrite(th)
           start == w.address - blk.address
       IN  jobs' = [jobs EXCEPT ![th] =
                      IF start < 0
                      THEN [@ EXCEPT !.raised = TRUE, !.k = @ + 1]
                      ELSE [@ EXCEPT !.pc = "check", !.start = start,
                                     !.end = start + Len(w.values), !.i = 0]]
    /\ UNCHANGED <<blk, written, res, ctx, nops, rw, lifeVars, editVars>>

\* setValues, line 57: if end > len(self.values)
SetValuesCheck(th) ==
    /\ jobs[th].pc = "check"
    /\ jobs' = [jobs EXCEPT ![th].pc =
                   IF jobs[th].end > Len(blk.values) THEN "size" ELSE "store"]
    /\ UNCHANGED <<blk, written, res, ctx, nops, rw, lifeVars, editVars>>

\* setValues, line 58, the argument: [0] * (end - len(self.values))
SetValuesSize(th) ==
    /\ jobs[th].pc = "size"
    /\ jobs' = [jobs EXCEPT ![th].pc = "extend",
                            ![th].n = IF jobs[th].end > Len(blk.values)
                                      THEN jobs[th].end - Len(blk.values) ELSE 0]
    /\ UNCHANGED <<blk, written, res, ctx, nops, rw, lifeVars, editVars>>

\* setValues, line 58, the call: self.values.extend(...)
SetValuesExtend(th) ==
    /\ jobs[th].pc = "extend"
    /\ blk' = [blk EXCEPT !.values = @ \o Zeros(jobs[th].n)]
    /\ jobs' = [jobs EXCEPT ![th].pc = "store"]
    /\ UNCHANGED <<written, res, ctx, nops, rw, lifeVars, editVars>>

\* setValues, lines 59-60, one iteration: self.values[start + i] = int(v); the
\* call returns after the last one.
SetValuesStore(th) ==
    /\ jobs[th].pc = "store"
    /\ LET w    == CurrentWrite(th)
           pos  == jobs[th].start + jobs[th].i + 1
           last == jobs[th].i + 1 = Len(w.values)
       IN  IF pos > Len(blk.values)
           THEN /\ jobs' = [jobs EXCEPT ![th].raised = TRUE, ![th].pc = "idle",
                                        ![th].k = @ + 1]
                /\ blk' = blk
           ELSE /\ blk' = [blk EXCEPT !.values[pos] = w.values[jobs[th].i + 1]]
                /\ jobs' = [jobs EXCEPT ![th] =
                              IF last THEN [@ EXCEPT !.pc = "idle", !.k = @ + 1]
                              ELSE [@ EXCEPT !.i = @ + 1]]
    /\ UNCHANGED <<written, res, ctx, nops, rw, lifeVars, editVars>>

NextConc ==
    \E th \in Threads :
        \/ SetValuesEnter(th)
        \/ SetValuesCheck(th)
        \/ SetValuesSize(th)
        \/ SetValuesExtend(th)
        \/ SetValuesStore(th)

SpecConc == InitConc /\ [][NextConc]_vars

\* Every thread has returned from its last setValues call.
AllDone == \A th \in Threads : jobs[th].k > Len(jobs[th].writes)

\* The value of every cell of block b, cells beyond its extent reading as zero.
CellsOf(b) ==
    [a \in Cells |-> IF a - b.address + 1 \in 1..Len(b.values)
                     THEN b.values[a - b.address + 1] ELSE 0]

\* The orders in which the calls of a and of b can be executed one after the
\* other, each thread's calls in its own order.
RECURSIVE Merges(_, _)
Merges(a, b) ==
    IF a = <<>> THEN {b}
    ELSE IF b = <<>> THEN {a}
    ELSE {<<Head(a)>> \o m : m \in Merges(Tail(a), b)}
            \cup {<<Head(b)>> \o m : m \in Merges(a, Tail(b))}

\* Block b after the calls of ws, executed one after the other.
RECURSIVE Serial(_, _)
Serial(b, ws) ==
    IF ws = <<>> THEN b
    ELSE Serial(DDB_setValues(b, Head(ws).address, Head(ws).values).blk, Tail(ws))

\* C20: writes of the UI thread and of the listener thread to one store are
\* serialized: under every interleaving, once all calls have returned, none of
\* them has raised and the cells of the block are those of executing the calls
\* one after the other in some order.
C20_WritesSerialized ==
    (jobs # NoJobs /\ AllDone) =>
        /\ \A th \in Threads : ~jobs[th].raised
        /\ \E ws \in Merges(jobs["ui"].writes, jobs["listener"].writes) :
               CellsOf(blk) = CellsOf(Serial(SharedBlock, ws))

----------------------------------------------------------------------------
\* SpecTorn: write_register_value of a multi-word register by the UI thread, one
\* rt.set_register call per word, while the listener thread serves reads of the
\* register's word range (DynamicDataBlock.getValues, one list slice).  No lock
\* is held across the words.

\* Listener reads in one run of SpecTorn.
MaxTornReads == 2

\* The words write_register_value computes before its loop: [err, words].
encode_value(reg, value) ==
    LET inverse == (reg.endian = "big")
        dt      == reg.data_type
    IN  CASE dt = "uint16" -> [err |-> "none", words |-> <<value>>]
          [] dt = "int32"  -> from_int(value, 2, TRUE, inverse)
          [] dt = "uint32" -> from_int(value, 2, FALSE, inverse)
          [] dt = "int64"  -> from_int(value, 4, TRUE, inverse)
          [] dt = "uint64" -> from_int(value, 4, FALSE, inverse)
          [] dt = "string" -> [err |-> "none", words |-> from_string(value, inverse)]
          [] OTHER -> [err |-> "none", words |-> <<>>]

\* The multi-word registers the listener's table holds.
MultiWordRegisters ==
    {q \in Registers : /\ q.table = "hr"
                       /\ q.data_type \in {"int32", "uint32", "int64", "uint64"}}

\* The register holds value old; the UI thread has computed the words of value
\* new and is about to write them.
InitTorn ==
    /\ blk = DynamicDataBlock(0, <<>>)
    /\ written = [a \in Cells |-> Unwritten]
    /\ res = NoCall
    /\ nops = 0
    /\ rw = NoAccess
    /\ rts = <<>>
    /\ thr = <<>>
    /\ port = NoThread
    /\ ctl = Idle
    /\ status = <<>>
    /\ runtimes = 0
    /\ registers = <<>>
    /\ dlg = NoDialog
    /\ slaves = <<>>
    /\ view = NoTable
    /\ \E reg \in MultiWordRegisters :
         \E old \in TypeValues(reg.data_type), new \in TypeValues(reg.data_type) :
            /\ old # new
            /\ ctx = write_register_value(SimpleModbusContext, reg, old).ctx
            /\ jobs = [reg |-> reg, old |-> encode_value(reg, old).words,
                       words |-> encode_value(reg, new).words, k |-> 0]

\* The whole loop of write_register_value in one step, as if a lock were held
\* across the words.
TornWriteAll ==
    /\ jobs.k < Len(jobs.words)
    /\ ctx' = SetWords(ctx, jobs.reg.table, jobs.reg.address + jobs.k,
                       SubSeq(jobs.words, jobs.k + 1, Len(jobs.words))).ctx
    /\ jobs' = [jobs EXCEPT !.k = Len(jobs.words)]
    /\ UNCHANGED <<blk, written, res, nops, rw, lifeVars, editVars>>

\* write_register_value, one iteration of `for i, w in enumerate(words):
\* rt.set_register(table, addr + i, w)`
TornWriteWord ==
    /\ jobs.k < Len(jobs.words)
    /\ ctx' = Ctx_set(ctx, jobs.reg.table, jobs.reg.address + jobs.k,
                      jobs.words[jobs.k + 1]).ctx
    /\ jobs' = [jobs EXCEPT !.k = @ + 1]
    /\ UNCHANGED <<blk, written, res, nops, rw, lifeVars, editVars>>

\* The listener serves a read of the register's word range:
\* store.getValues(fx, address, count)
TornListenerRead ==
    /\ nops < MaxTornReads
    /\ LET n == Len(jobs.words)
           r == Store_getValues(ctx, fx_map(jobs.reg.table), jobs.reg.address, n)
       IN  res' = [NoCall EXCEPT !.op = "read", !.table = jobs.reg.table,
                                 !.address = jobs.reg.address, !.count = n,
                                 !.err = r.err, !.ret = r.ret]
    /\ nops' = nops + 1
    /\ UNCHANGED <<blk, written, ctx, rw, lifeVars, editVars, concVars>>

NextTorn == TornWriteWord \/ TornListenerRead

SpecTorn == InitTorn /\ [][NextTorn]_vars

\* The first j of the new words followed by the old words from j + 1 on.
Mixed(j) ==
    [i \in 1..Len(jobs.words) |-> IF i <= j THEN jobs.words[i] ELSE jobs.old[i]]

\* C21: multi-word updates are not atomic: the words are written one
\* set_register call at a time (each step of the write stores one more word),
\* and a listener read of the word range returns the new words written so far
\* followed by the old ones, which between two steps is a mix of old and new.
C21_MultiWordNotAtomic ==
    /\ [][jobs'.k # jobs.k => jobs'.k = jobs.k + 1]_vars
    /\ [](res.op = "read" => \E j \in 0..Len(jobs.words) : res.ret = Mixed(j))

\* C21: a listener read has returned a mix: neither the old words nor the new.
C21_Witness ==
    /\ res.op = "read"
    /\ \E j \in 1..(Len(jobs.words) - 1) : res.ret = Mixed(j)
    /\ res.ret # jobs.old
    /\ res.ret # jobs.words

----------------------------------------------------------------------------
\* SpecApply: the operator starts the slave and applies values typed into the
\* value cell of a register row (apply_table_row).  The slave's register list
\* comes from a configuration file (load_config takes the definitions as they
\* are, so an address may lie below the block base).

\* Calls of apply_table_row in one run of SpecApply.
MaxApplyOps == 2

\* The register definitions a configuration file brings.
LoadedRegisters ==
    {q \in [table : {"hr"}, address : Addrs, data_type : {"uint16", "uint32", "string"},
            endian : {"big"}, string_length : 0..1] :
        q.data_type = "string" <=> q.string_length > 0}

\* int(val_text) / val_text: what the operator types into the value cell.
ApplyValues(dt) ==
    IF dt = "string" THEN {<<65>>, <<65, 66>>} ELSE {0 - 1, 7}

InitApply ==
    /\ blk = DynamicDataBlock(0, <<>>)
    /\ written = [a \in Cells |-> Unwritten]
    /\ res = NoCall
    /\ ctx = SimpleModbusContext
    /\ nops = 0
    /\ rw = NoAccess
    /\ rts = <<>>
    /\ thr = <<>>
    /\ port = NoThread
    /\ ctl = Idle
    /\ status = <<>>
    /\ runtimes = 0
    /\ dlg = NoDialog
    /\ slaves = <<>>
    /\ view = NoTable
    /\ jobs = NoJobs
    /\ \E q \in LoadedRegisters : registers = <<get_data(q)>>

\* MainWindow.apply_table_row(row): reg['value'] = value; with a runtime, the
\* value is written and "Applied: ..." is shown, else "Updated (not running)".
\* res.err is what write_register_value caught and printed.
ApplyTableRow ==
    /\ ctl.pc = "idle"
    /\ nops < MaxApplyOps
    /\ \E row \in 1..Len(registers) :
        \E value \in ApplyValues(registers[row].data_type) :
            LET reg == [registers[row] EXCEPT !.value = value]
                r   == write_register_value(ctx, reg, value)
            IN  /\ registers' = [registers EXCEPT ![row] = reg]
                /\ ctx' = IF runtimes # 0 THEN r.ctx ELSE ctx
                /\ res' = [NoCall EXCEPT
                              !.op = "apply", !.table = reg.table,
                              !.address = reg.address, !.values = <<value>>,
                              !.err = IF runtimes # 0 THEN r.err ELSE "none",
                              !.ret = IF runtimes # 0 THEN <<"Applied">>
                                      ELSE <<"Updated (not running)">>,
                              !.pre = ctx]
    /\ nops' = nops + 1
    /\ UNCHANGED <<blk, written, rw, dlg, lifeVars, concVars, slaves, view>>

NextApply ==
    \/ ApplyTableRow
    \/ MwStart
    \/ StartEmit
    \/ WorkerListen
    \/ WorkerBind

SpecApply == InitApply /\ [][NextApply]_vars

\* C22: when writing a register value fails (the codec or set_register raises),
\* the failure is surfaced: apply_table_row does not announce the value as
\* applied.
C22_WriteFailureSurfaced ==
    (res.op = "apply" /\ res.err # "none") => res.ret # <<"Applied">>

----------------------------------------------------------------------------
\* Lifecycle flags across runtimes and start cycles.

\* C24: stop() of one runtime terminates only the listener that runtime started:
\* in SpecShared, where only the selected slave is ever stopped, the other
\* slave's listener (thread 1 of runtime 1) keeps serving, is not told to shut
\* down, and its runtime's flags stay as they were.
C24_StopIsLocal ==
    /\ thr[1].pc = "serving"
    /\ ~thr[1].sig
    /\ rts[1].running
    /\ ~rts[1].shutdown_complete

\* C25: the running indicator agrees with the lifecycle: whenever the slave is
\* in runtimes and no start or stop is in progress, the listener thread of that
\* runtime is alive.
C25_IndicatorAgrees ==
    (runtimes # 0 /\ ctl.pc = "idle") => is_alive(rts[runtimes].thread)

\* C26: the completion flags belong to the current start cycle: while the worker
\* of the current cycle is alive in its listener and no stop() was requested,
\* _running is true and _shutdown_complete is clear, whatever a worker left over
\* from an earlier timed-out stop() does.
C26_FlagsOfCurrentCycle ==
    \A r \in 1..Len(rts) :
        Active(r) => (rts[r].running /\ ~rts[r].shutdown_complete)

----------------------------------------------------------------------------
\* SpecLoad: start_selected_slave step by step on a slave that has registers:
\* the runtime and its context are created, the registers are written to it one
\* write_register_value call at a time, and then the slave is recorded and
\* rt.start() spawns the listener thread.

\* Most registers the slave has when it is started.
MaxLoaded == 2

InitLoad ==
    /\ blk = DynamicDataBlock(0, <<>>)
    /\ written = [a \in Cells |-> Unwritten]
    /\ res = NoCall
    /\ ctx = SimpleModbusContext
    /\ nops = 0
    /\ rw = NoAccess
    /\ rts = <<>>
    /\ thr = <<>>
    /\ port = NoThread
    /\ ctl = Idle
    /\ status = <<>>
    /\ runtimes = 0
    /\ dlg = NoDialog
    /\ slaves = <<>>
    /\ view = NoTable
    /\ jobs = [k |-> 0]
    /\ \E qs \in UNION {[1..m -> DialogInputs] : m \in 1..MaxLoaded} :
         registers = [i \in 1..Len(qs) |-> get_data(qs[i])]

\* start_selected_slave, lines 276-287: refused while the slave is in runtimes,
\* else rt = SlaveRuntime(slave) with a new context.
LoadBegin ==
    /\ ctl.pc = "idle"
    /\ nops < MaxLifeOps
    /\ IF runtimes # 0
       THEN /\ ctl' = [Idle EXCEPT !.op = "start_refused", !.rt = runtimes, !.mw = TRUE]
            /\ nops' = nops + 1
            /\ UNCHANGED <<rts, ctx, jobs>>
       ELSE /\ rts' = Append(rts, SlaveRuntime)
            /\ ctx' = SimpleModbusContext
            /\ ctl' = [Idle EXCEPT !.op = "start", !.pc = "loading",
                                   !.rt = Len(rts) + 1, !.mw = TRUE]
            /\ jobs' = [k |-> 0]
            /\ nops' = nops
    /\ UNCHANGED <<blk, written, res, rw, thr, port, status, runtimes, editVars>>

\* start_selected_slave, lines 290-291, one iteration:
\* self.write_register_value(rt, reg, reg.get('value', 0))
LoadRegisterStep ==
    /\ ctl.pc = "loading"
    /\ jobs.k < Len(registers)
    /\ LET reg == registers[jobs.k + 1]
       IN  ctx' = write_register_value(ctx, reg, reg.value).ctx
    /\ jobs' = [jobs EXCEPT !.k = @ + 1]
    /\ UNCHANGED <<blk, written, res, nops, rw, lifeVars, editVars>>

\* The start without waiting for the end of the loop.
LoadStart_Early ==
    /\ ctl.pc = "loading"
    /\ runtimes' = ctl.rt
    /\ EnterStart(rts, ctl.rt, TRUE)
    /\ UNCHANGED <<blk, written, res, ctx, rw, port, status, editVars, concVars>>

\* start_selected_slave, lines 293-294, after the loop:
\* self.runtimes[name] = rt; rt.start()
LoadStart ==
    /\ ctl.pc = "loading"
    /\ jobs.k = Len(registers)
    /\ runtimes' = ctl.rt
    /\ EnterStart(rts, ctl.rt, TRUE)
    /\ UNCHANGED <<blk, written, res, ctx, rw, port, status, editVars, concVars>>

NextLoad ==
    \/ LoadBegin
    \/ LoadRegisterStep
    \/ LoadStart
    \/ StartEmit
    \/ WorkerListen
    \/ WorkerBind

SpecLoad == InitLoad /\ [][NextLoad]_vars

\* The words written for register k are not overwritten by those of a later
\* register of the list.
KeepsItsWords(k) ==
    \A j \in (k + 1)..Len(registers) :
        \/ registers[j].table # registers[k].table
        \/ ~RangesMeet(registers[k], Len(encode_value(registers[k], registers[k].value).words),
                       registers[j], Len(encode_value(registers[j], registers[j].value).words))

\* The store holds the configured value of register k.
HoldsValue(k) ==
    LET reg   == registers[k]
        words == encode_value(reg, reg.value).words
    IN  GetWords(ctx, reg.table, reg.address, Len(words)).words = words

----------------------------------------------------------------------------
\* SpecSlaves: the slave list of MainWindow.  Slaves are added, edited, removed,
\* started and stopped from the list widget, and a configuration file replaces
\* the list.  MainWindow.runtimes is modelled as the dict it is: the entries
\* [name, rt] in insertion order.  Every slave uses the transport the dialog
\* proposes, so that a slave definition is its name and its unit id.

\* Most operations of the operator on the slave list.
MaxSlaveOps == 3

\* What the operator types in the Name field of SlaveDialog, a free text
\* QLineEdit: the characters of the name.
SlaveNames == {<<"a">>, <<"a", " ", "(", "b", ")">>}

UnitIds == {1, 2}

\* SlaveDialog.get_data
SlaveConfigs == [name : SlaveNames, unit_id : UnitIds]

\* The names of a slave list are pairwise distinct.
DistinctNames(list) ==
    \A i, j \in 1..Len(list) : i # j => list[i].name # list[j].name

\* The slave lists that add_slave_dialog builds, and save_config writes.
SlaveLists ==
    {list \in UNION {[1..m -> SlaveConfigs] : m \in 0..Cardinality(SlaveNames)} :
        DistinctNames(list)}

\* The slave lists read from a configuration file.
ConfigFiles == {list \in SlaveLists : Len(list) <= 1}

\* SlaveRuntime.__init__ of SlaveRuntime(slave): self.slave_def = slave_def
SlaveRuntimeOf(slave) == [slave_def |-> slave] @@ SlaveRuntime

\* update_slave_list, lines 318-326: the text of the list item of slave s,
\* f"{name} ({status}) - {stype} {detail}"
item_text(s, running) ==
    s.name \o <<" ", "(">> \o <<IF running THEN "running" ELSE "stopped">>
           \o <<")", " ", "-", " ", "TCP", " ", "0.0.0.0:5020">>

\* text.split(' (')[0]: what precedes the first " (" of the text
split_first(text) ==
    LET hits == {i \in 1..(Len(text) - 1) : text[i] = " " /\ text[i + 1] = "("}
    IN  IF hits = {} THEN text
        ELSE SubSeq(text, 1, (CHOOSE i \in hits : \A j \in hits : i <= j) - 1)

\* self.runtimes.get(name): the runtime id, or 0 for None
runtimes_get(name) ==
    LET hits == {i \in 1..Len(runtimes) : runtimes[i].name = name}
    IN  IF hits = {} THEN 0 ELSE runtimes[CHOOSE i \in hits : TRUE].rt

\* del self.runtimes[name]
runtimes_del(name) ==
    LET Other(e) == e.name # name
    IN  SelectSeq(runtimes, Other)

\* del self.slaves[cur]
slaves_del(cur) == SubSeq(slaves, 1, cur - 1) \o SubSeq(slaves, cur + 1, Len(slaves))

\* The operation of the operator on the slave list, and where it stands: the
\* row cur, the name the handler works with, the slave of the row, the runtime
\* that slave had when the handler was called, the runtime stop() was called on,
\* what load_config still has to stop and the list it read.
SlaveOp(op, cur, name, slave, stopped, done) ==
    [op |-> op, cur |-> cur, name |-> name, slave |-> slave,
     had |-> runtimes_get(slave.name), stopped |-> stopped, done |-> done,
     pending |-> <<>>, config |-> <<>>]

InitSlaves ==
    /\ blk = DynamicDataBlock(0, <<>>)
    /\ written = [a \in Cells |-> Unwritten]
    /\ res = NoCall
    /\ ctx = SimpleModbusContext
    /\ nops = 0
    /\ rw = NoAccess
    /\ rts = <<>>
    /\ thr = <<>>
    /\ port = NoThread
    /\ ctl = Idle
    /\ status = <<>>
    /\ runtimes = <<>>
    /\ registers = <<>>
    /\ dlg = NoDialog
    /\ jobs = NoJobs
    /\ view = NoTable
    /\ slaves \in SlaveLists

\* MainWindow.add_slave_dialog, the dialog accepted with s
AddSlave ==
    /\ ctl.pc = "idle"
    /\ nops < MaxSlaveOps
    /\ \E s \in SlaveConfigs :
        IF \E k \in 1..Len(slaves) : slaves[k].name = s.name
        THEN /\ dlg' = SlaveOp("add_refused", 0, s.name, s, 0, TRUE)
             /\ slaves' = slaves
        ELSE /\ dlg' = SlaveOp("add", Len(slaves) + 1, s.name, s, 0, TRUE)
             /\ slaves' = Append(slaves, s)
    /\ ctl' = [Idle EXCEPT !.op = "add", !.mw = TRUE]
    /\ nops' = nops + 1
    /\ UNCHANGED <<blk, written, res, ctx, rw, rts, thr, port, status, runtimes,
                   registers, view, concVars>>

\* MainWindow.edit_selected_slave on row cur, the dialog accepted with updated
EditSlave ==
    /\ ctl.pc = "idle"
    /\ nops < MaxSlaveOps
    /\ \E cur \in 1..Len(slaves) :
        \E updated \in SlaveConfigs :
            LET slave == slaves[cur]
            IN  IF runtimes_get(slave.name) # 0
                THEN /\ dlg' = SlaveOp("edit_refused", cur, slave.name, slave, 0, TRUE)
                     /\ slaves' = slaves
                ELSE IF /\ updated.name # slave.name
                        /\ \E k \in 1..Len(slaves) : slaves[k].name = updated.name
                     THEN /\ dlg' = SlaveOp("edit_rejected", cur, updated.name, slave, 0, TRUE)
                          /\ slaves' = slaves
                     ELSE /\ dlg' = SlaveOp("edit", cur, updated.name, slave, 0, TRUE)
                          /\ slaves' = [slaves EXCEPT ![cur] = updated]
    /\ ctl' = [Idle EXCEPT !.op = "edit", !.mw = TRUE]
    /\ nops' = nops + 1
    /\ UNCHANGED <<blk, written, res, ctx, rw, rts, thr, port, status, runtimes,
                   registers, view, concVars>>

\* MainWindow.remove_selected_slave on row cur, confirmed: the name is read
\* back from the text of the list item; with a runtime under that name the
\* handler enters rt.stop() and goes on in HandlerResume.
RemoveSlave ==
    /\ ctl.pc = "idle"
    /\ nops < MaxSlaveOps
    /\ \E cur \in 1..Len(slaves) :
        LET slave == slaves[cur]
            name  == split_first(item_text(slave, runtimes_get(slave.name) # 0))
            rt    == runtimes_get(name)
        IN  IF rt # 0
            THEN /\ EnterStop(rt, TRUE)
                 /\ dlg' = SlaveOp("remove", cur, name, slave, rt, FALSE)
                 /\ slaves' = slaves
            ELSE /\ dlg' = SlaveOp("remove", cur, name, slave, 0, TRUE)
                 /\ slaves' = slaves_del(cur)
                 /\ ctl' = [Idle EXCEPT !.op = "remove", !.mw = TRUE]
                 /\ nops' = nops + 1
                 /\ UNCHANGED <<rts, thr>>
    /\ UNCHANGED <<blk, written, res, ctx, rw, port, status, runtimes,
                   registers, view, concVars>>

\* MainWindow.start_selected_slave on row cur
StartSlave ==
    /\ ctl.pc = "idle"
    /\ nops < MaxSlaveOps
    /\ \E cur \in 1..Len(slaves) :
        LET slave == slaves[cur]
        IN  IF runtimes_get(slave.name) # 0
            THEN /\ dlg' = SlaveOp("start_refused", cur, slave.name, slave, 0, TRUE)
                 /\ ctl' = [Idle EXCEPT !.op = "start_refused", !.mw = TRUE,
                                        !.rt = runtimes_get(slave.name)]
                 /\ nops' = nops + 1
                 /\ UNCHANGED <<rts, thr, runtimes>>
            ELSE /\ dlg' = SlaveOp("start", cur, slave.name, slave, 0, TRUE)
                 /\ EnterStart(Append(rts, SlaveRuntimeOf(slave)), Len(rts) + 1, TRUE)
                 /\ runtimes' = Append(runtimes, [name |-> slave.name, rt |-> Len(rts) + 1])
    /\ UNCHANGED <<blk, written, res, ctx, rw, port, status, slaves,
                   registers, view, concVars>>

\* MainWindow.stop_selected_slave on row cur
StopSlave ==
    /\ ctl.pc = "idle"
    /\ nops < MaxSlaveOps
    /\ \E cur \in 1..Len(slaves) :
        LET slave == slaves[cur]
            rt    == runtimes_get(slave.name)
        IN  IF rt = 0
            THEN /\ dlg' = SlaveOp("stop_refused", cur, slave.name, slave, 0, TRUE)
                 /\ ctl' = [Idle EXCEPT !.op = "stop_refused", !.mw = TRUE]
                 /\ nops' = nops + 1
                 /\ UNCHANGED <<rts, thr>>
            ELSE /\ dlg' = SlaveOp("stop", cur, slave.name, slave, rt, FALSE)
                 /\ EnterStop(rt, TRUE)
    /\ UNCHANGED <<blk, written, res, ctx, rw, port, status, runtimes, slaves,
                   registers, view, concVars>>

\* MainWindow.load_config of a file that holds the slave list config: the
\* runtimes are stopped one after the other in the order of the dict, then
\* self.runtimes.clear() and self.slaves = config.get('slaves', [])
LoadConfig ==
    /\ ctl.pc = "idle"
    /\ nops < MaxSlaveOps
    /\ \E config \in ConfigFiles :
        IF runtimes = <<>>
        THEN /\ dlg' = [op |-> "load_config", cur |-> 0, name |-> <<>>, slave |-> <<>>,
                        had |-> 0, stopped |-> 0, done |-> TRUE,
                        pending |-> <<>>, config |-> config]
             /\ slaves' = config
             /\ ctl' = [Idle EXCEPT !.op = "load_config", !.mw = TRUE]
             /\ nops' = nops + 1
             /\ UNCHANGED <<rts, thr>>
        ELSE /\ dlg' = [op |-> "load_config", cur |-> 0, name |-> <<>>, slave |-> <<>>,
                        had |-> 0, stopped |-> Head(runtimes).rt, done |-> FALSE,
                        pending |-> Tail(runtimes), config |-> config]
             /\ slaves' = slaves
             /\ EnterStop(Head(runtimes).rt, TRUE)
    /\ UNCHANGED <<blk, written, res, ctx, rw, port, status, runtimes,
                   registers, view, concVars>>

\* SlaveRuntime.stop, lines 56-58, called by a handler of the slave list: the
\* settle delay, then self.status_changed.emit("stopped"); stop() returns to
\* the handler.
SlaveStopEmit ==
    /\ ctl.pc = "stop_emit"
    /\ status' = Append(status, <<ctl.rt, "stopped">>)
    /\ rts' = [rts EXCEPT ![ctl.rt].life = "stopped"]
    /\ LET t == rts[ctl.rt].thread
       IN  ctl' = [ctl EXCEPT !.pc = "handler", !.emitted = TRUE,
                              !.aliveAtEnd = (t # NoThread /\ is_alive(t))]
    /\ UNCHANGED <<blk, written, res, ctx, rw, nops, thr, port, runtimes, editVars, concVars>>

\* The handler after rt.stop() returned: remove_selected_slave, lines 212-213
\* (del self.runtimes[name]; del self.slaves[cur]); stop_selected_slave, line
\* 310 (del self.runtimes[name]); load_config, lines 693-698 (the next
\* rt.stop(), or self.runtimes.clear() and the new list).
HandlerResume ==
    /\ ctl.pc = "handler"
    /\ CASE dlg.op = "remove" ->
              /\ runtimes' = runtimes_del(dlg.name)
              /\ slaves' = slaves_del(dlg.cur)
              /\ dlg' = [dlg EXCEPT !.done = TRUE]
              /\ ctl' = [ctl EXCEPT !.pc = "idle"]
              /\ UNCHANGED <<rts, thr, nops>>
         [] dlg.op = "stop" ->
              /\ runtimes' = runtimes_del(dlg.name)
              /\ dlg' = [dlg EXCEPT !.done = TRUE]
              /\ ctl' = [ctl EXCEPT !.pc = "idle"]
              /\ UNCHANGED <<rts, thr, nops, slaves>>
         [] dlg.op = "load_config" ->
              IF dlg.pending # <<>>
              THEN /\ EnterStop(Head(dlg.pending).rt, TRUE)
                   /\ dlg' = [dlg EXCEPT !.stopped = Head(dlg.pending).rt,
                                         !.pending = Tail(dlg.pending)]
                   /\ UNCHANGED <<runtimes, slaves>>
              ELSE /\ runtimes' = <<>>
                   /\ slaves' = dlg.config
                   /\ dlg' = [dlg EXCEPT !.done = TRUE]
                   /\ ctl' = [ctl EXCEPT !.pc = "idle"]
                   /\ UNCHANGED <<rts, thr, nops>>
    /\ UNCHANGED <<blk, written, res, ctx, rw, port, status, registers, view, concVars>>

NextSlaves ==
    \/ AddSlave
    \/ EditSlave
    \/ RemoveSlave
    \/ StartSlave
    \/ StopSlave
    \/ LoadConfig
    \/ StartEmit
    \/ StopWait
    \/ StopJoin
    \/ SlaveStopEmit
    \/ HandlerResume
    \/ WorkerListen
    \/ WorkerBind
    \/ WorkerServerExit
    \/ WorkerFinally
    \/ WorkerShutdownComplete
    \/ WorkerReturn

SpecSlaves == InitSlaves /\ [][NextSlaves]_vars

\* C23: removing a running slave stops its listener: when remove_selected_slave
\* has returned for a slave that had a runtime, stop() was called on that
\* runtime, the slave's name is no key of runtimes, and no listener thread of
\* that runtime is alive.
C23_RemoveStopsListener ==
    (dlg.op = "remove" /\ dlg.done /\ dlg.had # 0) =>
        /\ dlg.stopped = dlg.had
        /\ runtimes_get(dlg.slave.name) = 0
        /\ \A t \in 1..Len(thr) : thr[t].rt = dlg.had => ~is_alive(t)

\* C29: the definition of a slave never changes while the slave has a runtime:
\* a slave whose name is a key of runtimes has the definition that runtime was
\* created with.
C29_DefinitionFixedWhileRunning ==
    \A i \in 1..Len(runtimes) :
        \A k \in 1..Len(slaves) :
            slaves[k].name = runtimes[i].name => slaves[k] = rts[runtimes[i].rt].slave_def

\* C30: the names of the slaves are pairwise distinct, and every key of
\* runtimes is the name of exactly one slave.
C30_NamesIdentifySlaves ==
    /\ DistinctNames(slaves)
    /\ \A i \in 1..Len(runtimes) :
          Cardinality({k \in 1..Len(slaves) : slaves[k].name = runtimes[i].name}) = 1

----------------------------------------------------------------------------
\* SpecSearch: the register table of the selected slave under the search box.
\* The table shows the registers whose name contains the search text; Apply,
\* Edit Register and Remove Register are given a row of the table.

\* Most operations of the operator on the search box and the table.
MaxSearchOps == 2

\* The characters of register names and of search texts.
lower_char(c) == CASE c = "A" -> "a" [] c = "B" -> "b" [] OTHER -> c

\* str.lower()
lower(text) == [i \in 1..Len(text) |-> lower_char(text[i])]

\* str.strip()
RECURSIVE strip(_)
strip(text) ==
    IF text = <<>> THEN text
    ELSE IF Head(text) = " " THEN strip(Tail(text))
    ELSE IF text[Len(text)] = " " THEN strip(SubSeq(text, 1, Len(text) - 1))
    ELSE text

\* s in text
contains(text, s) ==
    \E i \in 1..(Len(text) - Len(s) + 1) : SubSeq(text, i, i + Len(s) - 1) = s

\* The names the operator gives to registers.
RegisterNames == {<<"a">>, <<"A", "b">>, <<"b">>}

\* What the operator types in the search box.
SearchTexts == {<<>>, <<" ">>, <<"a">>, <<"B", " ">>, <<"a", "b">>}

\* The registers of the slave: 16-bit holding registers with a name.
NamedRegisters ==
    [table : {"hr"}, address : 0..MaxAddr, data_type : {"uint16"}, endian : {"big"},
     string_length : {0}, name : RegisterNames, value : Values]

\* The register lists add_register_dialog builds: no two at one address.
NamedRegisterLists ==
    {regs \in UNION {[1..m -> NamedRegisters] : m \in 1..2} :
        \A i, j \in 1..Len(regs) : i # j => regs[i].address # regs[j].address}

\* populate_table / the loop of search_refresh_table_values: _add_table_row of
\* every register of regs, a row with the cells of the register.
table_rows(regs) ==
    [i \in 1..Len(regs) |->
        [address |-> regs[i].address, table |-> regs[i].table,
         data_type |-> regs[i].data_type, endian |-> regs[i].endian,
         name |-> regs[i].name, value |-> regs[i].value]]

\* filtered_regs of search_refresh_table_values
filtered_regs(regs, search_text) ==
    LET Match(reg) == contains(lower(reg.name), search_text)
    IN  SelectSeq(regs, Match)

\* The register of the list that the row shows: the one at the row's table and
\* address, as 0 if there is none.
Displayed(regs, shown) ==
    LET hits == {i \in 1..Len(regs) :
                    regs[i].table = shown.table /\ regs[i].address = shown.address}
    IN  IF hits = {} THEN 0 ELSE CHOOSE i \in hits : TRUE

\* What a handler was given and what it did: the row, the register the row
\* showed, and the position in the slave's list of the register it acted on.
RowOp(op, row, target) ==
    [op |-> op, row |-> row, shown |-> view.rows[row],
     displayed |-> Displayed(registers, view.rows[row]), target |-> target]

InitSearch ==
    /\ blk = DynamicDataBlock(0, <<>>)
    /\ written = [a \in Cells |-> Unwritten]
    /\ res = NoCall
    /\ ctx = SimpleModbusContext
    /\ nops = 0
    /\ rw = NoAccess
    /\ rts = <<>>
    /\ thr = <<>>
    /\ port = NoThread
    /\ ctl = Idle
    /\ status = <<>>
    /\ runtimes = 0
    /\ dlg = NoDialog
    /\ jobs = NoJobs
    /\ slaves = <<>>
    /\ registers \in NamedRegisterLists
    /\ view = [search |-> <<>>, rows |-> table_rows(registers)]

\* MainWindow.search_refresh_table_values, on search_box.textChanged
SearchRefresh ==
    /\ ctl.pc = "idle"
    /\ nops < MaxSearchOps
    /\ \E text \in SearchTexts :
        LET search_text == lower(strip(text))
        IN  view' = [search |-> text,
                     rows |-> IF search_text = <<>> THEN table_rows(registers)
                              ELSE table_rows(filtered_regs(registers, search_text))]
    /\ nops' = nops + 1
    /\ UNCHANGED <<blk, written, res, ctx, rw, lifeVars, registers, dlg, slaves, concVars>>

\* MainWindow.apply_table_row(row), the Apply button of a row of the table,
\* with value typed in the row's value cell
SearchApplyRow ==
    /\ ctl.pc = "idle"
    /\ nops < MaxSearchOps
    /\ \E row \in 1..Len(view.rows) :
        \E value \in Values :
            /\ row <= Len(registers)
            /\ LET reg == [registers[row] EXCEPT !.value = value]
               IN  /\ registers' = [registers EXCEPT ![row] = reg]
                   /\ ctx' = IF runtimes # 0
                             THEN write_register_value(ctx, reg, value).ctx ELSE ctx
            /\ view' = [view EXCEPT !.rows[row].value = value]
            /\ dlg' = RowOp("apply", row, row)
    /\ nops' = nops + 1
    /\ UNCHANGED <<blk, written, res, rw, lifeVars, slaves, concVars>>

\* MainWindow.edit_selected_register on the current row of the table, the
\* dialog accepted with another name and value
SearchEditRegister ==
    /\ ctl.pc = "idle"
    /\ nops < MaxSearchOps
    /\ \E reg_row \in 1..Len(view.rows) :
        \E name \in RegisterNames, value \in Values :
            /\ reg_row <= Len(registers)
            /\ LET r == [registers[reg_row] EXCEPT !.name = name, !.value = value]
               IN  /\ registers' = [registers EXCEPT ![reg_row] = r]
                   /\ ctx' = IF runtimes # 0
                             THEN write_register_value(ctx, r, r.value).ctx ELSE ctx
            /\ view' = [view EXCEPT !.rows = table_rows(registers')]
            /\ dlg' = RowOp("edit", reg_row, reg_row)
    /\ nops' = nops + 1
    /\ UNCHANGED <<blk, written, res, rw, lifeVars, slaves, concVars>>

\* MainWindow.remove_selected_register on the current row of the table
SearchRemoveRegister ==
    /\ ctl.pc = "idle"
    /\ nops < MaxSearchOps
    /\ \E reg_row \in 1..Len(view.rows) :
        /\ reg_row <= Len(registers)
        /\ registers' = SubSeq(registers, 1, reg_row - 1)
                            \o SubSeq(registers, reg_row + 1, Len(registers))
        /\ view' = [view EXCEPT !.rows = table_rows(registers')]
        /\ dlg' = RowOp("remove", reg_row, reg_row)
    /\ nops' = nops + 1
    /\ UNCHANGED <<blk, written, res, ctx, rw, lifeVars, slaves, concVars>>

NextSearch ==
    \/ SearchRefresh
    \/ SearchApplyRow
    \/ SearchEditRegister
    \/ SearchRemoveRegister

SpecSearch == InitSearch /\ [][NextSearch]_vars

\* C28: for any search filter, apply_table_row, edit_selected_register and
\* remove_selected_register act on the register that the chosen row of the
\* table displays.
C28_ActsOnDisplayedRegister ==
    dlg.op \in {"apply", "edit", "remove"} => dlg.target = dlg.displayed

====
